---- MODULE Spec2Model ----
(***************************************************************************)
(* Arithmetic in the negacyclic rings Z[X]/(X^N+1), Z_q[X]/(X^N+1) and     *)
(* Z_pq[X]/(X^N+1) of package negacyclic.                                  *)
(*                                                                         *)
(* A *big.Int is an address into `heap`; a Polynomial is the sequence of   *)
(* the addresses of its coefficients (Coeffs []*big.Int).  Go index i is   *)
(* TLA+ index i+1.  Every function that can panic returns a record whose   *)
(* field `panic` is "" on a normal return and the panic message otherwise. *)
(***************************************************************************)
EXTENDS Integers, Sequences, FiniteSets, TLC

VARIABLES heap,   \* the big.Int objects allocated so far
          recv,   \* the multiplier constructed (Multiplier, CRTMultiplier, ZMultiplier)
          x, y,   \* the operands of the last call (sequences of addresses)
          out,    \* the polynomial returned by the last call
          op,     \* the last call made
          panic,  \* "" or the message the last call panicked with
          heap0,  \* the heap as it was when the last call was entered
          thr,    \* the goroutines running Mul concurrently, <<>> when there are none;
                  \* thr[i].local holds the objects goroutine i has allocated, which
                  \* it addresses from Len(heap) + 1 on
          scalars \* the arguments and the result of the last call that are not
                  \* polynomials (ints and *big.Int), NoScalars when there are none

vars == <<heap, recv, x, y, out, op, panic, heap0, thr, scalars>>

----------------------------------------------------------------------------
(* Heap and slices *)

Alloc(h, v) == Append(h, v)

RECURSIVE AllocAll(_, _)
AllocAll(h, vs) == IF vs = <<>> THEN h ELSE AllocAll(Append(h, Head(vs)), Tail(vs))

\* the addresses of k objects allocated one after the other on top of h
Fresh(h, k) == [i \in 1..k |-> Len(h) + i]

\* the values held by the objects of a slice
Values(h, p) == [i \in 1..Len(p) |-> h[p[i]]]

Zeros(k) == [i \in 1..k |-> 0]

Abs(v) == IF v < 0 THEN -v ELSE v

----------------------------------------------------------------------------
(* Number theory *)

isPowerOfTwo(n) == n > 0 /\ \E k \in 0..n : 2^k = n

Log2(n) == CHOOSE k \in 0..n : 2^k = n

RECURSIVE ModExp(_, _, _)
ModExp(g, e, q) == IF e = 0 THEN 1 % q ELSE (g * ModExp(g, e - 1, q)) % q

RECURSIVE IsPrimeFrom(_, _)
IsPrimeFrom(n, d) == IF d * d > n THEN TRUE
                     ELSE IF n % d = 0 THEN FALSE ELSE IsPrimeFrom(n, d + 1)

ProbablyPrime(n) == n >= 2 /\ IsPrimeFrom(n, 2)

modularInverse(a, m) == CHOOSE b \in 0..(m - 1) : (a * b) % m = 1 % m

\* the values FindPrimitiveRootOfUnity(m, q) can return
PrimitiveRootsOfUnity(m, q) ==
    {g \in 1..(q - 1) : ModExp(g, m, q) = 1 /\ ModExp(g, m \div 2, q) # 1}

RECURSIVE bitReverse(_, _)
bitReverse(i, bits) ==
    IF bits = 0 THEN 0
    ELSE (i % 2) * 2^(bits - 1) + bitReverse(i \div 2, bits - 1)

rootsOfUnityBitReverse(n, g, q) ==
    [i \in 1..n |-> ModExp(g, bitReverse(i - 1, Log2(n)), q)]

----------------------------------------------------------------------------
(* Polynomial container *)

Deg(p) == Len(p)

\* NewPolynomial(degree): a zero polynomial of fresh coefficients
NewPolynomial(h, degree) ==
    IF ~isPowerOfTwo(degree)
    THEN [panic |-> "negacyclic arithmetic only implemented for n a power of 2",
          h |-> h, p |-> <<>>]
    ELSE [panic |-> "", h |-> AllocAll(h, Zeros(degree)), p |-> Fresh(h, degree)]

----------------------------------------------------------------------------
(* Prime-field multiplier *)

\* why NewMultiplier(n, mod) panics, "" when it does not
NewMultiplierPanic(n, q) ==
    IF ~isPowerOfTwo(n) THEN "multiplier expects n power of two"
    ELSE IF ~ProbablyPrime(q) THEN "multiplier expects prime modulus"
    ELSE IF q % (2 * n) # 1 THEN "q != 1 mod 2n"
    ELSE ""

\* NewMultiplier(n, mod) past its checks: mod is the object the caller passed, g the
\* root FindPrimitiveRootOfUnity(2*n, mod) returned
NewMultiplier(h, n, mod, g) ==
    LET q      == h[mod]
        gInv   == modularInverse(g, q)
        h1     == Alloc(h, modularInverse(n, q))
        nInvQ  == Len(h1)
        roots  == rootsOfUnityBitReverse(n, g, q)
        h2     == AllocAll(h1, roots)
        iroots == rootsOfUnityBitReverse(n, gInv, q)
        h3     == AllocAll(h2, iroots)
    IN [h |-> h3,
        m |-> [N |-> n, Mod |-> mod, nInvQ |-> nInvQ,
               rootsBitReverse    |-> Fresh(h1, n),
               invRootsBitReverse |-> Fresh(h2, n)]]

IndexPanic == "index out of range"

\* for j := j1; j <= j2; j++ { CT butterfly on a[j], a[j+t] }
RECURSIVE NTTInner(_, _, _, _, _, _, _)
NTTInner(st, a, q, s, t, j, j2) ==
    IF st.panic # "" \/ j > j2 THEN st
    ELSE IF j >= Len(a) \/ j + t >= Len(a) THEN [st EXCEPT !.panic = IndexPanic]
    ELSE LET h  == st.h
             u  == h[a[j + 1]]
             v  == h[a[j + t + 1]] * s
             h1 == [h EXCEPT ![a[j + 1]] = (u + v) % h[q]]
             h2 == [h1 EXCEPT ![a[j + t + 1]] = (u - v) % h1[q]]
         IN NTTInner([st EXCEPT !.h = h2], a, q, s, t, j + 1, j2)

\* NTTMiddle with the twiddle read at roots[i] instead of roots[m+i]
RECURSIVE NTTMiddleWrongTwiddle(_, _, _, _, _, _, _)
NTTMiddleWrongTwiddle(st, a, q, roots, t, m, i) ==
    IF st.panic # "" \/ i >= m THEN st
    ELSE LET j1 == 2 * i * t
             j2 == j1 + t - 1
             s  == st.h[roots[i + 1]]
         IN NTTMiddleWrongTwiddle(NTTInner(st, a, q, s, t, j1, j2), a, q, roots, t, m, i + 1)

\* for i := 0; i < m; i++ { ... }
RECURSIVE NTTMiddle(_, _, _, _, _, _, _)
NTTMiddle(st, a, q, roots, t, m, i) ==
    IF st.panic # "" \/ i >= m THEN st
    ELSE LET j1 == 2 * i * t
             j2 == j1 + t - 1
             s  == st.h[roots[m + i + 1]]
         IN NTTMiddle(NTTInner(st, a, q, s, t, j1, j2), a, q, roots, t, m, i + 1)

\* for m := 1; m < n; m = 2 * m { t /= 2; ... }
RECURSIVE NTTOuter(_, _, _, _, _, _, _)
NTTOuter(st, a, q, roots, n, t, m) ==
    IF st.panic # "" \/ m >= n THEN st
    ELSE NTTOuter(NTTMiddle(st, a, q, roots, t \div 2, m, 0),
                  a, q, roots, n, t \div 2, 2 * m)

\* mul.NTT(a): in place, on the heap
NTT(h, mul, a) ==
    NTTOuter([panic |-> "", h |-> h], a, mul.Mod, mul.rootsBitReverse, mul.N, mul.N, 1)

\* for j := j1; j <= j2; j++ { GS butterfly on a[j], a[j+t] }
RECURSIVE INTTInner(_, _, _, _, _, _, _)
INTTInner(st, a, q, s, t, j, j2) ==
    IF st.panic # "" \/ j > j2 THEN st
    ELSE IF j >= Len(a) \/ j + t >= Len(a) THEN [st EXCEPT !.panic = IndexPanic]
    ELSE LET h  == st.h
             u  == h[a[j + 1]]
             v  == h[a[j + t + 1]]
             h1 == [h EXCEPT ![a[j + 1]] = (u + v) % h[q]]
             h2 == [h1 EXCEPT ![a[j + t + 1]] = ((u - v) * s) % h1[q]]
         IN INTTInner([st EXCEPT !.h = h2], a, q, s, t, j + 1, j2)

\* for i := 0; i < h; i++ { ...; j1 += 2 * t }
RECURSIVE INTTMiddle(_, _, _, _, _, _, _, _)
INTTMiddle(st, a, q, rootsInv, t, hh, i, j1) ==
    IF st.panic # "" \/ i >= hh THEN st
    ELSE LET j2 == j1 + t - 1
             s  == st.h[rootsInv[hh + i + 1]]
         IN INTTMiddle(INTTInner(st, a, q, s, t, j1, j2),
                       a, q, rootsInv, t, hh, i + 1, j1 + 2 * t)

\* for m := n; m > 1; m /= 2 { ...; t *= 2 }
RECURSIVE INTTOuter(_, _, _, _, _, _)
INTTOuter(st, a, q, rootsInv, t, m) ==
    IF st.panic # "" \/ m <= 1 THEN st
    ELSE INTTOuter(INTTMiddle(st, a, q, rootsInv, t, m \div 2, 0, 0),
                   a, q, rootsInv, 2 * t, m \div 2)

\* INTTScale that reduces mod q but forgets the factor nInv
RECURSIVE INTTScaleNoNInv(_, _, _, _, _, _)
INTTScaleNoNInv(st, a, q, nInv, n, j) ==
    IF st.panic # "" \/ j >= n THEN st
    ELSE IF j >= Len(a) THEN [st EXCEPT !.panic = IndexPanic]
    ELSE LET h == st.h
         IN INTTScaleNoNInv([st EXCEPT !.h = [h EXCEPT ![a[j + 1]] = h[a[j + 1]] % h[q]]],
                            a, q, nInv, n, j + 1)

\* for j := 0; j < n; j++ { a[j] = a[j] * nInv mod q }
RECURSIVE INTTScale(_, _, _, _, _, _)
INTTScale(st, a, q, nInv, n, j) ==
    IF st.panic # "" \/ j >= n THEN st
    ELSE IF j >= Len(a) THEN [st EXCEPT !.panic = IndexPanic]
    ELSE LET h == st.h
         IN INTTScale([st EXCEPT !.h = [h EXCEPT ![a[j + 1]] = (h[a[j + 1]] * h[nInv]) % h[q]]],
                      a, q, nInv, n, j + 1)

\* mul.INTT(a): in place, on the heap
INTT(h, mul, a) ==
    INTTScale(INTTOuter([panic |-> "", h |-> h], a, mul.Mod, mul.invRootsBitReverse, 1, mul.N),
              a, mul.Mod, mul.nInvQ, mul.N, 0)

\* mul.Hadamard(a, b): a fresh polynomial c with c[i] = a[i] * b[i] mod q
Hadamard(h, mul, a, b) ==
    IF Deg(a) # Deg(b) THEN [panic |-> "asymmetric multiplication call", h |-> h, p |-> <<>>]
    ELSE LET c == NewPolynomial(h, Deg(a))
         IN IF c.panic # "" THEN c
            ELSE [panic |-> "",
                  h |-> AllocAll(c.h, [i \in 1..Deg(a) |-> (c.h[a[i]] * c.h[b[i]]) % c.h[mul.Mod]]),
                  p |-> Fresh(c.h, Deg(a))]

\* for i := 0; i < n; i++ { a[i], b[i] = new(big.Int), new(big.Int); Set; Set }
\* st = [h, a, b]: the heap and the Coeffs slices of a and b
RECURSIVE MulCopyLoop(_, _, _, _)
MulCopyLoop(st, xp, yp, i) ==
    IF i > Len(xp) THEN st
    ELSE LET h1 == Alloc(st.h, 0)
             h2 == Alloc(h1, 0)
             h3 == [h2 EXCEPT ![Len(h1)] = h2[xp[i]]]
             h4 == [h3 EXCEPT ![Len(h2)] = h3[yp[i]]]
         IN MulCopyLoop([h |-> h4,
                         a |-> [st.a EXCEPT ![i] = Len(h1)],
                         b |-> [st.b EXCEPT ![i] = Len(h2)]], xp, yp, i + 1)

\* the copy loop with a.Coeffs[i], b.Coeffs[i] = x.Coeffs[i], y.Coeffs[i]
MulCopyShared(h, a, b, xp, yp) == [h |-> h, a |-> xp, b |-> yp]

\* the copy loop with a.Coeffs[i].Abs(x.Coeffs[i]), b.Coeffs[i].Abs(y.Coeffs[i])
MulCopyAbs(h, a, b, xp, yp) ==
    LET st == MulCopyLoop([h |-> h, a |-> a, b |-> b], xp, yp, 1)
    IN [st EXCEPT !.h = [k \in 1..Len(st.h) |->
                            IF k > Len(h) THEN Abs(st.h[k]) ELSE st.h[k]]]

MulCopy(h, a, b, xp, yp) == MulCopyLoop([h |-> h, a |-> a, b |-> b], xp, yp, 1)

\* MulReduce reducing to the representative nearest zero instead of coeff.Mod
RECURSIVE MulReduceNearestZero(_, _, _, _)
MulReduceNearestZero(h, c, q, i) ==
    IF i > Len(c) THEN h
    ELSE LET r == h[c[i]] % h[q]
         IN MulReduceNearestZero(
                [h EXCEPT ![c[i]] = IF 2 * r > h[q] THEN r - h[q] ELSE r], c, q, i + 1)

\* MulReduce with receiver and operand swapped: mul.Mod.Mod(coeff, mul.Mod)
RECURSIVE MulReduceIntoMod(_, _, _, _)
MulReduceIntoMod(h, c, q, i) ==
    IF i > Len(c) THEN h
    ELSE MulReduceIntoMod([h EXCEPT ![q] = h[c[i]] % h[q]], c, q, i + 1)

\* for _, coeff := range c.Coeffs { coeff.Mod(coeff, mul.Mod) }
RECURSIVE MulReduce(_, _, _, _)
MulReduce(h, c, q, i) ==
    IF i > Len(c) THEN h
    ELSE MulReduce([h EXCEPT ![c[i]] = h[c[i]] % h[q]], c, q, i + 1)

\* the frame of a call of Mul: its operands, the step it is about to make and
\* its locals; call names the Mul (of a Multiplier, or of a CRTMultiplier one of
\* the steps "multiplierP.Mul", "multiplierQ.Mul", "combine")
Frame(call, xp, yp) ==
    [call |-> call, pc |-> "copy", panic |-> "", x |-> xp, y |-> yp,
     a |-> <<>>, b |-> <<>>, c |-> <<>>, ra |-> <<>>, rb |-> <<>>, out |-> <<>>,
     local |-> <<>>]

\* the next step of mul.Mul(x, y) from frame t: one call made by Mul, or one of
\* its two loops
MulStep(h, mul, t) ==
    CASE t.pc = "copy" ->
           IF Deg(t.x) # Deg(t.y)
           THEN [h |-> h, t |-> [t EXCEPT !.panic = "asymmetric multiplication call"]]
           ELSE LET na == NewPolynomial(h, Deg(t.x))
                    nb == NewPolynomial(na.h, Deg(t.x))
                IN IF na.panic # "" THEN [h |-> h, t |-> [t EXCEPT !.panic = na.panic]]
                   ELSE LET cp == MulCopy(nb.h, na.p, nb.p, t.x, t.y)
                        IN [h |-> cp.h, t |-> [t EXCEPT !.a = cp.a, !.b = cp.b, !.pc = "NTT a"]]
      [] t.pc = "NTT a" ->
           LET s == NTT(h, mul, t.a)
           IN [h |-> s.h, t |-> [t EXCEPT !.panic = s.panic, !.pc = "NTT b"]]
      [] t.pc = "NTT b" ->
           LET s == NTT(h, mul, t.b)
           IN [h |-> s.h, t |-> [t EXCEPT !.panic = s.panic, !.pc = "Hadamard"]]
      [] t.pc = "Hadamard" ->
           LET c == Hadamard(h, mul, t.a, t.b)
           IN [h |-> c.h, t |-> [t EXCEPT !.panic = c.panic, !.c = c.p, !.pc = "INTT"]]
      [] t.pc = "INTT" ->
           LET s == INTT(h, mul, t.c)
           IN [h |-> s.h, t |-> [t EXCEPT !.panic = s.panic, !.pc = "reduce"]]
      [] t.pc = "reduce" ->
           [h |-> MulReduce(h, t.c, mul.Mod, 1), t |-> [t EXCEPT !.pc = "return"]]

\* the steps of mul.Mul(x, y) one after the other, to its return or its panic
RECURSIVE MulRun(_, _)
MulRun(st, mul) ==
    IF st.t.pc = "return" \/ st.t.panic # "" THEN st
    ELSE MulRun(MulStep(st.h, mul, st.t), mul)

\* return c
MulReturn(st) ==
    [panic |-> st.t.panic, h |-> st.h, p |-> IF st.t.panic # "" THEN <<>> ELSE st.t.c]

\* mul.Mul(x, y)
Mul(h, mul, xp, yp) == MulReturn(MulRun([h |-> h, t |-> Frame("Mul", xp, yp)], mul))

----------------------------------------------------------------------------
(* Symmetric reduction *)

\* symmetricModulus with val.Cmp(halfMod) >= 0 for val.Cmp(halfMod) > 0
RECURSIVE symmetricModulusLoopFromHalf(_, _, _, _)
symmetricModulusLoopFromHalf(h, p, q, i) ==
    IF i > Len(p) THEN h
    ELSE LET halfMod == h[q] \div 2
             val     == h[p[i]] % h[q]
         IN symmetricModulusLoopFromHalf(
                [h EXCEPT ![p[i]] = IF val >= halfMod THEN val - h[q] ELSE val], p, q, i + 1)

\* p.symmetricModulus(q): in place; Quo truncates, Mod is Euclidean
RECURSIVE symmetricModulusLoop(_, _, _, _)
symmetricModulusLoop(h, p, q, i) ==
    IF i > Len(p) THEN h
    ELSE LET halfMod    == h[q] \div 2
             negHalfMod == -halfMod
             val        == h[p[i]] % h[q]
             h1         == [h EXCEPT ![p[i]] = val]
             h2         == IF val > halfMod THEN [h1 EXCEPT ![p[i]] = val - h1[q]]
                           ELSE IF val < negHalfMod THEN [h1 EXCEPT ![p[i]] = val + h1[q]]
                           ELSE h1
         IN symmetricModulusLoop(h2, p, q, i + 1)

symmetricModulus(h, p, q) == symmetricModulusLoop(h, p, q, 1)

\* p.Mod(mod): mutates p and returns it
Mod(h, p, mod) == [h |-> symmetricModulus(h, p, mod), p |-> p]

----------------------------------------------------------------------------
(* Scaling to the nearest integer *)

\* A big.Float is the fraction num/den with den > 0.  The mantissa of aux, denom
\* and quo has at least 64 bits; the values of this model stay far below 2^63,
\* where Quo and Add round to a value on the same side of every integer and of
\* every half-integer as the exact quotient and sum, and a quotient or sum that
\* is an integer or a half-integer is exact.
FloatOf(num, den) == IF den < 0 THEN [num |-> -num, den |-> -den] ELSE [num |-> num, den |-> den]

\* z.SetInt(v)
FloatSetInt(v) == FloatOf(v, 1)

\* z.Abs(f)
FloatAbs(f) == FloatOf(Abs(f.num), f.den)

\* z.Quo(f, g), g # 0
FloatQuo(f, g) == FloatOf(f.num * g.den, f.den * g.num)

\* z.Add(f, g)
FloatAdd(f, g) == FloatOf(f.num * g.den + g.num * f.den, f.den * g.den)

\* big.NewFloat(0.5)
FloatHalf == FloatOf(1, 2)

\* f.Int(nil): the integer part of f, truncated towards zero
FloatInt(f) == IF f.num >= 0 THEN f.num \div f.den ELSE -((-f.num) \div f.den)

\* the loop of ScaleNearest from Go index i - 1 on: st.p is result.Coeffs
RECURSIVE ScaleNearestLoop(_, _, _, _)
ScaleNearestLoop(st, p, denom, i) ==
    IF i > Len(p) THEN st
    ELSE LET coeff == st.h[p[i]]
             aux   == FloatAbs(FloatSetInt(coeff))
             quo   == FloatQuo(aux, denom)
             sum   == FloatAdd(quo, FloatHalf)
             h1    == Alloc(st.h, FloatInt(sum))
             r     == Len(h1)
             h2    == IF coeff < 0 THEN [h1 EXCEPT ![r] = -h1[r]] ELSE h1
         IN ScaleNearestLoop([st EXCEPT !.h = h2, !.p[i] = r], p, denom, i + 1)

\* p.ScaleNearest(scale)
ScaleNearest(h, p, scale) ==
    IF h[scale] = 0 THEN [panic |-> "division by zero", h |-> h, p |-> <<>>]
    ELSE LET result == NewPolynomial(h, Deg(p))
         IN IF result.panic # "" THEN result
            ELSE ScaleNearestLoop(result, p, FloatSetInt(h[scale]), 1)

----------------------------------------------------------------------------
(* Sampling a prime *)

\* bits.Len(uint(n)): the number of bits of n, 0 for 0; a negative int converts
\* to a uint of 64 bits
RECURSIVE bitsLen(_)
bitsLen(n) == IF n < 0 THEN 64 ELSE IF n = 0 THEN 0 ELSE 1 + bitsLen(n \div 2)

\* RLWEPrime adding 1, not dim, to a candidate that is not prime
RECURSIVE RLWEPrimeLoopByOne(_, _)
RLWEPrimeLoopByOne(prime, dim) ==
    IF ProbablyPrime(prime) THEN prime ELSE RLWEPrimeLoopByOne(prime + 1, dim)

\* for !prime.ProbablyPrime(32) { prime.Add(prime, dim) }
RECURSIVE RLWEPrimeLoop(_, _)
RLWEPrimeLoop(prime, dim) ==
    IF ProbablyPrime(prime) THEN prime ELSE RLWEPrimeLoop(prime + dim, dim)

\* RLWEPrime(bitLen, n), n >= 1: prime is the address of the *big.Int returned
RLWEPrime(h, bitLen, n) ==
    LET nbits == bitLen - bitsLen(n)
    IN IF nbits < 0
       THEN [panic |-> "RLWE prime must be >= 2*n (bitLen too small)", h |-> h, prime |-> 0]
       ELSE LET h1 == Alloc(h, RLWEPrimeLoop(2^nbits * n + 1, n))
            IN [panic |-> "", h |-> h1, prime |-> Len(h1)]

----------------------------------------------------------------------------
(* CRT multiplier *)

\* why NewCRTMultiplier(n, p, q) panics before it builds the inner multipliers
NewCRTMultiplierPanic(n, p, q) ==
    IF ~isPowerOfTwo(n) THEN "multiplier expects n power of two"
    ELSE IF ~ProbablyPrime(p) \/ ~ProbablyPrime(q) \/ p = q
         THEN "multiplier expects two coprime moduli"
    ELSE IF NewMultiplierPanic(n, p) # "" THEN NewMultiplierPanic(n, p)
    ELSE NewMultiplierPanic(n, q)

\* NewCRTMultiplier(n, p, q) past its checks; gp, gq are the roots found for p and q
NewCRTMultiplier(h, n, p, q, gp, gq) ==
    LET h1 == Alloc(h, h[p] * h[q])
        h2 == Alloc(h1, modularInverse(h[p], h[q]))
        mp == NewMultiplier(h2, n, p, gp)
        mq == NewMultiplier(mp.h, n, q, gq)
    IN [h |-> mq.h,
        m |-> [PQ |-> Len(h1), N |-> n, pInvQ |-> Len(h2),
               multiplierP |-> mp.m, multiplierQ |-> mq.m]]

\* CRTCombine with the difference taken as a[i]-b[i]
RECURSIVE CRTCombineSwapped(_, _, _, _, _, _, _)
CRTCombineSwapped(st, m, xp, a, b, p, i) ==
    IF st.panic # "" \/ i > Len(xp) THEN st
    ELSE IF i > Len(a) \/ i > Len(b) THEN [st EXCEPT !.panic = IndexPanic]
    ELSE LET h == st.h
             z == (h[a[i]] - h[b[i]]) * h[m.pInvQ] * h[p] + h[a[i]]
         IN CRTCombineSwapped([st EXCEPT !.h = Alloc(h, z)], m, xp, a, b, p, i + 1)

\* CRTCombine with (b[i]-a[i])*pInvQ reduced modulo q before the product with p
RECURSIVE CRTCombineReduced(_, _, _, _, _, _, _)
CRTCombineReduced(st, m, xp, a, b, p, i) ==
    IF st.panic # "" \/ i > Len(xp) THEN st
    ELSE IF i > Len(a) \/ i > Len(b) THEN [st EXCEPT !.panic = IndexPanic]
    ELSE LET h == st.h
             q == h[m.multiplierQ.Mod]
             z == (((h[b[i]] - h[a[i]]) * h[m.pInvQ]) % q) * h[p] + h[a[i]]
         IN CRTCombineReduced([st EXCEPT !.h = Alloc(h, z)], m, xp, a, b, p, i + 1)

\* for i := range x.Coeffs { z[i] = new(big.Int); z[i] = (b[i]-a[i])*pInvQ*p + a[i] }
RECURSIVE CRTCombine(_, _, _, _, _, _, _)
CRTCombine(st, m, xp, a, b, p, i) ==
    IF st.panic # "" \/ i > Len(xp) THEN st
    ELSE IF i > Len(a) \/ i > Len(b) THEN [st EXCEPT !.panic = IndexPanic]
    ELSE LET h == st.h
             z == (h[b[i]] - h[a[i]]) * h[m.pInvQ] * h[p] + h[a[i]]
         IN CRTCombine([st EXCEPT !.h = Alloc(h, z)], m, xp, a, b, p, i + 1)

\* a := m.multiplierP.Mul(x, y) has made the step r; on its return Mul goes on
\* to multiplierQ.Mul
CRTMulAfterP(r) ==
    IF r.t.pc # "return" THEN r
    ELSE [r EXCEPT !.t.ra = r.t.c, !.t.call = "multiplierQ.Mul", !.t.pc = "copy"]

\* b := m.multiplierQ.Mul(x, y) has made the step r; on its return Mul goes on
\* to the Garner loop
CRTMulAfterQ(r) ==
    IF r.t.pc # "return" THEN r
    ELSE [r EXCEPT !.t.rb = r.t.c, !.t.call = "combine", !.t.pc = "combine"]

\* the next step of m.Mul(x, y) of a CRTMultiplier from frame t
CRTMulStep(h, m, t) ==
    CASE t.call = "multiplierP.Mul" -> CRTMulAfterP(MulStep(h, m.multiplierP, t))
      [] t.call = "multiplierQ.Mul" -> CRTMulAfterQ(MulStep(h, m.multiplierQ, t))
      [] t.call = "combine" ->
           LET z == NewPolynomial(h, Deg(t.x))
           IN IF z.panic # "" THEN [h |-> h, t |-> [t EXCEPT !.panic = z.panic]]
              ELSE LET st == CRTCombine([panic |-> "", h |-> z.h], m, t.x, t.ra, t.rb,
                                        m.multiplierP.Mod, 1)
                   IN [h |-> st.h,
                       t |-> [t EXCEPT !.panic = st.panic, !.out = Fresh(z.h, Deg(t.x)),
                                       !.pc = "return"]]

\* the steps of m.Mul(x, y) one after the other, to its return or its panic
RECURSIVE CRTMulRun(_, _)
CRTMulRun(st, m) ==
    IF st.t.pc = "return" \/ st.t.panic # "" THEN st
    ELSE CRTMulRun(CRTMulStep(st.h, m, st.t), m)

\* return z
CRTMulReturn(st) ==
    [panic |-> st.t.panic, h |-> st.h, p |-> IF st.t.panic # "" THEN <<>> ELSE st.t.out]

\* m.Mul(x, y) of a CRTMultiplier
CRTMul(h, m, xp, yp) ==
    CRTMulReturn(CRTMulRun([h |-> h, t |-> Frame("multiplierP.Mul", xp, yp)], m))

----------------------------------------------------------------------------
(* Integer multiplier *)

\* normInfiniteLoop comparing with Cmp instead of CmpAbs
RECURSIVE normInfiniteSigned(_, _, _, _)
normInfiniteSigned(h, norm, pol, i) ==
    IF i > Len(pol) THEN h
    ELSE normInfiniteSigned(IF h[norm] < h[pol[i]]
                            THEN [h EXCEPT ![norm] = Abs(h[pol[i]])] ELSE h,
                            norm, pol, i + 1)

\* normInfinite(pol): a fresh big.Int holding the largest |coefficient|
RECURSIVE normInfiniteLoop(_, _, _, _)
normInfiniteLoop(h, norm, pol, i) ==
    IF i > Len(pol) THEN h
    ELSE normInfiniteLoop(IF Abs(h[norm]) < Abs(h[pol[i]])
                          THEN [h EXCEPT ![norm] = Abs(h[pol[i]])] ELSE h,
                          norm, pol, i + 1)

normInfinite(h, pol) ==
    LET h1 == Alloc(h, 0)
    IN [h |-> normInfiniteLoop(h1, Len(h1), pol, 1), v |-> Len(h1)]

\* for !prime.ProbablyPrime(32) { prime.Add(prime, 2N) }
RECURSIVE ZPrimeSearch(_, _)
ZPrimeSearch(v, step) == IF ProbablyPrime(v) THEN v ELSE ZPrimeSearch(v + step, step)

\* prime.Mul(prime, normInfinite(pol)), nrm being what normInfinite(pol) returned
ZMulPrimeTimes(nrm, pr) == [nrm.h EXCEPT ![pr] = nrm.h[pr] * nrm.h[nrm.v]]

\* prime.Add(prime, 1), then the search for a prime
ZMulPrimeFound(h, pr, step) == [h EXCEPT ![pr] = ZPrimeSearch(h[pr] + 1, step)]

\* the heap once m.Mul has derived its prime, and the address of the prime
ZMulPrime(h, m, xp, yp) ==
    [h |-> ZMulPrimeFound(
              ZMulPrimeTimes(normInfinite(ZMulPrimeTimes(normInfinite(Alloc(h, 2 * m.N), xp),
                                                         Len(h) + 1),
                                          yp),
                             Len(h) + 1),
              Len(h) + 1, 2 * m.N),
     prime |-> Len(h) + 1]

\* why m.Mul(x, y) of a ZMultiplier panics on entry, "" when it does not
ZMulPanic(m, xp, yp) ==
    IF Deg(xp) # Deg(yp) THEN "asymmetric multiply call"
    ELSE IF Deg(xp) # m.N THEN "bad multiply length"
    ELSE ""

\* pol.Mod(prime); return pol
ZMulReturn(pol, prime) ==
    IF pol.panic # "" THEN pol
    ELSE [panic |-> "", h |-> Mod(pol.h, pol.p, prime).h, p |-> pol.p]

\* pol := modM.Mul(x, y)
ZMulWith(modM, prime, xp, yp) == ZMulReturn(Mul(modM.h, modM.m, xp, yp), prime)

\* modM := NewMultiplier(m.N, prime), zp being the heap and the address of prime
ZMulFrom(zp, m, xp, yp, g) ==
    IF NewMultiplierPanic(m.N, zp.h[zp.prime]) # ""
    THEN [panic |-> NewMultiplierPanic(m.N, zp.h[zp.prime]), h |-> zp.h, p |-> <<>>]
    ELSE ZMulWith(NewMultiplier(zp.h, m.N, zp.prime, g), zp.prime, xp, yp)

\* m.Mul(x, y) of a ZMultiplier; g is the root NewMultiplier found for the prime
ZMul(h, m, xp, yp, g) ==
    IF ZMulPanic(m, xp, yp) # "" THEN [panic |-> ZMulPanic(m, xp, yp), h |-> h, p |-> <<>>]
    ELSE ZMulFrom(ZMulPrime(h, m, xp, yp), m, xp, yp, g)

----------------------------------------------------------------------------
(* Karatsuba *)

addSlices(a, b) == [i \in 1..Len(a) |-> a[i] + b[i]]

subSlices(a, b) == [i \in 1..Len(a) |-> a[i] - b[i]]

\* karatsubaRec(x, y) on the values of the slices; every slice it returns is
\* made of fresh objects
RECURSIVE karatsubaRec(_, _)
karatsubaRec(xv, yv) ==
    IF Len(xv) # Len(yv) THEN [panic |-> "asymmetric Karatsuba call", v |-> <<>>]
    ELSE IF Len(xv) = 1 THEN [panic |-> "", v |-> <<xv[1] * yv[1]>>]
    ELSE IF ~isPowerOfTwo(Len(xv))
         THEN [panic |-> "Karatsuba implemented for power of two only", v |-> <<>>]
    ELSE
    LET l  == Len(xv)
        xL == SubSeq(xv, 1, l \div 2)
        xR == SubSeq(xv, l \div 2 + 1, l)
        yL == SubSeq(yv, 1, l \div 2)
        yR == SubSeq(yv, l \div 2 + 1, l)
        z0 == karatsubaRec(xL, yL)
        z1 == karatsubaRec(addSlices(xL, xR), addSlices(yL, yR))
        z2 == karatsubaRec(xR, yR)
    IN IF z0.panic # "" THEN z0 ELSE IF z1.panic # "" THEN z1 ELSE IF z2.panic # "" THEN z2
       ELSE
    LET crossTerm == subSlices(subSlices(z1.v, z2.v), z0.v)
    IN IF Len(crossTerm) = 1
       THEN [panic |-> "", v |-> (z0.v \o crossTerm) \o (z2.v \o <<0>>)]
       ELSE
    LET crossL == [i \in 1..l |-> IF i > l \div 2 THEN crossTerm[i - l \div 2] ELSE 0]
        crossR == [i \in 1..l |-> IF i <= l \div 2 THEN crossTerm[i + l \div 2] ELSE 0]
    IN [panic |-> "", v |-> addSlices(z0.v, crossL) \o addSlices(z2.v, crossR)]

\* for i := 0; i < p.Deg(); i++ { karat[i].Sub(karat[i], karat[i+p.Deg()]) }
RECURSIVE KaratsubaFold(_, _, _)
KaratsubaFold(st, deg, i) ==
    IF st.panic # "" \/ i >= deg THEN st
    ELSE IF i + deg >= Len(st.v) THEN [st EXCEPT !.panic = IndexPanic]
    ELSE KaratsubaFold([st EXCEPT !.v = [st.v EXCEPT ![i + 1] = st.v[i + 1] - st.v[i + deg + 1]]],
                       deg, i + 1)

\* Karatsuba(p, q): the new polynomial holds karat[:p.Deg()]
Karatsuba(h, pp, qp) ==
    IF ~isPowerOfTwo(Deg(pp)) \/ ~isPowerOfTwo(Deg(qp))
    THEN [panic |-> "Karatsuba only implemented for power of two degrees", h |-> h, p |-> <<>>]
    ELSE
    LET karat == karatsubaRec(Values(h, pp), Values(h, qp))
        st    == KaratsubaFold(karat, Deg(pp), 0)
    IN IF st.panic # "" THEN [panic |-> st.panic, h |-> h, p |-> <<>>]
       ELSE [panic |-> "", h |-> AllocAll(h, SubSeq(st.v, 1, Deg(pp))), p |-> Fresh(h, Deg(pp))]

----------------------------------------------------------------------------
(* Reference product *)

\* the coefficient of X^k of x*y in Z[X]/(X^dim+1): += x[i]*y[j] when
\* i+j < dim, -= x[i]*y[j] at i+j-dim otherwise
RECURSIVE NaiveSum(_, _, _, _, _)
NaiveSum(xv, yv, dim, k, ij) ==
    IF ij >= dim * dim THEN 0
    ELSE LET i == ij \div dim
             j == ij % dim
             term == IF i + j < dim /\ i + j = k THEN xv[i + 1] * yv[j + 1]
                     ELSE IF i + j >= dim /\ i + j - dim = k THEN -(xv[i + 1] * yv[j + 1])
                     ELSE 0
         IN term + NaiveSum(xv, yv, dim, k, ij + 1)

cycMulNaive(xv, yv) == [k \in 1..Len(xv) |-> NaiveSum(xv, yv, Len(xv), k - 1, 0)]

----------------------------------------------------------------------------
(* Inputs *)

\* the ring dimensions exercised
Dims == {1, 2, 4}

\* moduli offered to the constructors: 2..MaxModulus
MaxModulus == 41

\* operands have at most MaxWeight non-zero coefficients between them
MaxWeight == 4

Moduli == 2..MaxModulus

\* non-zero coefficients offered to a multiplier of modulus q: inside [0, q)
FieldCoeffs(q) == {1, 2, q - 1}

\* and outside [-q, q)
WildCoeffs(q) == {-q - 1, q + 2}

\* non-zero coefficients offered to the integer multipliers
IntCoeffs == {1, -2, 3}

\* the sequences of length n over {0} \cup coeffs with at most w non-zero entries
RECURSIVE Sparse(_, _, _)
Sparse(n, w, coeffs) ==
    IF n = 0 THEN {<<>>}
    ELSE {<<0>> \o s : s \in Sparse(n - 1, w, coeffs)}
         \cup (IF w = 0 THEN {}
               ELSE {<<c>> \o s : c \in coeffs, s \in Sparse(n - 1, w - 1, coeffs)})

\* pairs of operands of length n
OperandPairs(n, coeffs) ==
    {<<SubSeq(s, 1, n), SubSeq(s, n + 1, 2 * n)>> : s \in Sparse(2 * n, MaxWeight, coeffs)}

\* single operands of length n
Operands(n, coeffs) == Sparse(n, MaxWeight, coeffs)

\* operands whose length is not the dimension n: constant polynomials
Lengths(n) == {n \div 2, n, 2 * n} \ {0}

ConstPoly(l, c) == [i \in 1..l |-> c]

----------------------------------------------------------------------------
(* The calls *)

NoRecv == [kind |-> "none"]

NoScalars == [call |-> "none"]

Init ==
    /\ heap = <<>>
    /\ recv = NoRecv
    /\ x = <<>>
    /\ y = <<>>
    /\ out = <<>>
    /\ op = "init"
    /\ panic = ""
    /\ heap0 = <<>>
    /\ thr = <<>>
    /\ scalars = NoScalars

\* the outcome r of a call that returns a polynomial
Return(r) ==
    /\ heap' = r.h
    /\ out' = r.p
    /\ panic' = r.panic

\* m := NewMultiplier(n, big.NewInt(q))
NewMultiplierCall ==
    /\ op = "init"
    /\ \E n \in Dims, q \in Moduli :
         LET h1 == Alloc(heap, q)
         IN IF NewMultiplierPanic(n, q) # ""
            THEN /\ heap' = h1
                 /\ recv' = NoRecv
                 /\ panic' = NewMultiplierPanic(n, q)
            ELSE \E g \in PrimitiveRootsOfUnity(2 * n, q) :
                   LET nm == NewMultiplier(h1, n, Len(h1), g)
                   IN /\ heap' = nm.h
                      /\ recv' = [kind |-> "Multiplier", m |-> nm.m]
                      /\ panic' = ""
    /\ op' = "NewMultiplier"
    /\ heap0' = heap
    /\ UNCHANGED <<x, y, out, thr, scalars>>

Ready(kind) == recv.kind = kind /\ op \in {"NewMultiplier", "NewCRTMultiplier", "NewZMultiplier"}

\* the operands xv, yv as fresh polynomials; alias: y is the polynomial x itself
Operand1(h, xv) == Fresh(h, Len(xv))

Operand2(h, xv, yv, alias) == IF alias THEN Operand1(h, xv) ELSE Fresh(AllocAll(h, xv), Len(yv))

WithOperands(h, xv, yv, alias) == IF alias THEN AllocAll(h, xv) ELSE AllocAll(AllocAll(h, xv), yv)

\* c := m.Mul(x, y)
MulCall ==
    /\ Ready("Multiplier")
    /\ \E pr \in OperandPairs(recv.m.N, FieldCoeffs(heap[recv.m.Mod]))
                 \cup OperandPairs(recv.m.N, WildCoeffs(heap[recv.m.Mod]))
                 \cup {<<ConstPoly(lx, cx), ConstPoly(ly, cy)>> :
                          lx \in Lengths(recv.m.N), ly \in Lengths(recv.m.N),
                          cx \in {0, 1}, cy \in {0, heap[recv.m.Mod] - 1}},
          alias \in BOOLEAN :
         /\ alias => pr[1] = pr[2]
         /\ LET h0 == WithOperands(heap, pr[1], pr[2], alias)
                xp == Operand1(heap, pr[1])
                yp == Operand2(heap, pr[1], pr[2], alias)
            IN /\ heap0' = h0
               /\ x' = xp
               /\ y' = yp
               /\ Return(Mul(h0, recv.m, xp, yp))
    /\ op' = "Mul"
    /\ UNCHANGED <<recv, thr, scalars>>

\* m.NTT(a)
NTTCall ==
    /\ Ready("Multiplier")
    /\ \E xv \in Operands(recv.m.N, FieldCoeffs(heap[recv.m.Mod]))
                 \cup Operands(recv.m.N, WildCoeffs(heap[recv.m.Mod])) :
         LET h0 == AllocAll(heap, xv)
             xp == Operand1(heap, xv)
             r  == NTT(h0, recv.m, xp)
         IN /\ heap0' = h0
            /\ x' = xp
            /\ heap' = r.h
            /\ panic' = r.panic
    /\ op' = "NTT"
    /\ UNCHANGED <<recv, y, out, thr, scalars>>

\* m.INTT(a), on the polynomial m.NTT(a) has just transformed
INTTCall ==
    /\ recv.kind = "Multiplier" /\ op = "NTT" /\ panic = ""
    /\ LET r == INTT(heap, recv.m, x)
       IN /\ heap' = r.h
          /\ panic' = r.panic
    /\ op' = "INTT"
    /\ UNCHANGED <<recv, x, y, out, heap0, thr, scalars>>

\* m := NewCRTMultiplier(n, big.NewInt(p), big.NewInt(q))
NewCRTMultiplierCall ==
    /\ op = "init"
    /\ \E n \in Dims, p \in Moduli, q \in Moduli :
         LET h1 == Alloc(Alloc(heap, p), q)
         IN IF NewCRTMultiplierPanic(n, p, q) # ""
            THEN /\ heap' = h1
                 /\ recv' = NoRecv
                 /\ panic' = NewCRTMultiplierPanic(n, p, q)
            ELSE \E gp \in PrimitiveRootsOfUnity(2 * n, p), gq \in PrimitiveRootsOfUnity(2 * n, q) :
                   LET nm == NewCRTMultiplier(h1, n, Len(h1) - 1, Len(h1), gp, gq)
                   IN /\ heap' = nm.h
                      /\ recv' = [kind |-> "CRTMultiplier", m |-> nm.m]
                      /\ panic' = ""
    /\ op' = "NewCRTMultiplier"
    /\ heap0' = heap
    /\ UNCHANGED <<x, y, out, thr, scalars>>

\* non-zero coefficients offered to a CRT multiplier: inside [0, pq)
CRTCoeffs(p, q) == {p * q - 1, p + q}

\* z := m.Mul(x, y) of a CRTMultiplier
CRTMulCall ==
    /\ Ready("CRTMultiplier")
    /\ \E pr \in OperandPairs(recv.m.N, CRTCoeffs(heap[recv.m.multiplierP.Mod],
                                                  heap[recv.m.multiplierQ.Mod]))
                 \cup {<<ConstPoly(lx, 1), ConstPoly(ly, 2)>> :
                          lx \in Lengths(recv.m.N), ly \in Lengths(recv.m.N)},
          alias \in BOOLEAN :
         /\ alias => pr[1] = pr[2]
         /\ LET h0 == WithOperands(heap, pr[1], pr[2], alias)
                xp == Operand1(heap, pr[1])
                yp == Operand2(heap, pr[1], pr[2], alias)
            IN /\ heap0' = h0
               /\ x' = xp
               /\ y' = yp
               /\ Return(CRTMul(h0, recv.m, xp, yp))
    /\ op' = "CRTMul"
    /\ UNCHANGED <<recv, thr, scalars>>

\* m := NewZMultiplier(n)
NewZMultiplierCall ==
    /\ op = "init"
    /\ \E n \in Dims \cup {3} :
         IF ~isPowerOfTwo(n)
         THEN /\ recv' = NoRecv
              /\ panic' = "multiplier expects n power of two"
         ELSE /\ recv' = [kind |-> "ZMultiplier", m |-> [N |-> n]]
              /\ panic' = ""
    /\ op' = "NewZMultiplier"
    /\ heap0' = heap
    /\ UNCHANGED <<heap, x, y, out, thr, scalars>>

\* the roots NewMultiplier can find inside m.Mul(x, y) of a ZMultiplier
ZMulRoots(h, m, xp, yp) ==
    IF ZMulPanic(m, xp, yp) # "" THEN {0}
    ELSE LET zp == ZMulPrime(h, m, xp, yp)
         IN IF NewMultiplierPanic(m.N, zp.h[zp.prime]) # "" THEN {0}
            ELSE PrimitiveRootsOfUnity(2 * m.N, zp.h[zp.prime])

\* pol := m.Mul(x, y) of a ZMultiplier
ZMulCall ==
    /\ Ready("ZMultiplier")
    /\ \E pr \in OperandPairs(recv.m.N, IntCoeffs)
                 \cup {<<ConstPoly(lx, 1), ConstPoly(ly, -1)>> :
                          lx \in Lengths(recv.m.N), ly \in Lengths(recv.m.N)},
          alias \in BOOLEAN :
         /\ alias => pr[1] = pr[2]
         /\ LET h0 == WithOperands(heap, pr[1], pr[2], alias)
                xp == Operand1(heap, pr[1])
                yp == Operand2(heap, pr[1], pr[2], alias)
            IN /\ heap0' = h0
               /\ x' = xp
               /\ y' = yp
               /\ \E g \in ZMulRoots(h0, recv.m, xp, yp) :
                    Return(ZMul(h0, recv.m, xp, yp, g))
    /\ op' = "ZMul"
    /\ UNCHANGED <<recv, thr, scalars>>

\* karat := Karatsuba(x, y)
KaratsubaCall ==
    /\ op = "init"
    /\ \E n \in Dims :
       \E pr \in OperandPairs(n, IntCoeffs)
                 \cup {<<ConstPoly(lx, 1), ConstPoly(ly, -1)>> : lx \in 1..n, ly \in 1..n} :
         LET h0 == WithOperands(heap, pr[1], pr[2], FALSE)
             xp == Operand1(heap, pr[1])
             yp == Operand2(heap, pr[1], pr[2], FALSE)
         IN /\ heap0' = h0
            /\ x' = xp
            /\ y' = yp
            /\ Return(Karatsuba(h0, xp, yp))
    /\ op' = "Karatsuba"
    /\ UNCHANGED <<recv, thr, scalars>>

\* coefficients offered to ScaleNearest: -MaxCoeff..MaxCoeff
MaxCoeff == 7

\* the scales offered to ScaleNearest
Scales == -3..4

\* the polynomials offered to ScaleNearest: every one of length 1 and 2, and
\* constant ones of length 3 and 4
ScalePolys ==
    {<<c>> : c \in -MaxCoeff..MaxCoeff}
    \cup {<<c, d>> : c \in -MaxCoeff..MaxCoeff, d \in -MaxCoeff..MaxCoeff}
    \cup {ConstPoly(l, c) : l \in {3, 4}, c \in {-MaxCoeff, 3}}

\* rounded := p.ScaleNearest(big.NewInt(d))
ScaleNearestCall ==
    /\ op = "init"
    /\ \E pv \in ScalePolys, d \in Scales :
         LET h0 == Alloc(AllocAll(heap, pv), d)
             xp == Fresh(heap, Len(pv))
         IN /\ heap0' = h0
            /\ x' = xp
            /\ scalars' = [call |-> "ScaleNearest", scale |-> Len(h0)]
            /\ Return(ScaleNearest(h0, xp, Len(h0)))
    /\ op' = "ScaleNearest"
    /\ UNCHANGED <<recv, y, thr>>

\* coefficients offered to Mod under the modulus q: around 0, q/2, q and beyond
ModCoeffs(q) ==
    {-q - 1, -q, -(q \div 2) - 1, -(q \div 2), -1, 0, 1,
     q \div 2, (q \div 2) + 1, q - 1, q, 2 * q + 1}

\* r := p.Mod(big.NewInt(q)); alias: p.Coeffs[0] and p.Coeffs[1] are one object
ModCall ==
    /\ op = "init"
    /\ \E q \in Moduli, l \in {1, 2}, alias \in BOOLEAN :
       \E pv \in [1..l -> ModCoeffs(q)] :
         /\ alias => (l = 2 /\ pv[1] = pv[2])
         /\ LET h1 == IF alias THEN Alloc(heap, pv[1]) ELSE AllocAll(heap, pv)
                h0 == Alloc(h1, q)
                xp == IF alias THEN <<Len(h1), Len(h1)>> ELSE Fresh(heap, l)
                r  == Mod(h0, xp, Len(h0))
            IN /\ heap0' = h0
               /\ x' = xp
               /\ scalars' = [call |-> "Mod", mod |-> Len(h0)]
               /\ heap' = r.h
               /\ out' = r.p
               /\ panic' = ""
    /\ op' = "Mod"
    /\ UNCHANGED <<recv, y, thr>>

\* bit lengths asked of RLWEPrime: 0..MaxBitLen
MaxBitLen == 6

\* the dimensions RLWEPrime is called with
RLWEDims == 1..4

\* q := RLWEPrime(bitLen, n)
RLWEPrimeCall ==
    /\ op = "init"
    /\ \E bitLen \in 0..MaxBitLen, n \in RLWEDims :
         LET r == RLWEPrime(heap, bitLen, n)
         IN /\ heap' = r.h
            /\ panic' = r.panic
            /\ scalars' = [call |-> "RLWEPrime", bitLen |-> bitLen, n |-> n, prime |-> r.prime]
    /\ op' = "RLWEPrime"
    /\ heap0' = heap
    /\ UNCHANGED <<recv, x, y, out, thr>>

\* m := NewMultiplier(n, q) with the q that RLWEPrime(bitLen, n) has returned
NewMultiplierOfRLWEPrime ==
    /\ op = "RLWEPrime" /\ panic = ""
    /\ LET n == scalars.n
           q == heap[scalars.prime]
       IN IF NewMultiplierPanic(n, q) # ""
          THEN /\ heap' = heap
               /\ recv' = NoRecv
               /\ panic' = NewMultiplierPanic(n, q)
          ELSE \E g \in PrimitiveRootsOfUnity(2 * n, q) :
                 LET nm == NewMultiplier(heap, n, scalars.prime, g)
                 IN /\ heap' = nm.h
                    /\ recv' = [kind |-> "Multiplier", m |-> nm.m]
                    /\ panic' = ""
    /\ op' = "NewMultiplier"
    /\ heap0' = heap
    /\ UNCHANGED <<x, y, out, thr, scalars>>

\* the goroutines
Threads == {1, 2}

\* the operands the goroutines are given in dimension n under modulus m
ConcOperands(n, m) ==
    {<<[i \in 1..n |-> i % m], [i \in 1..n |-> (m - i) % m]>>,
     <<[i \in 1..n |-> (m - 1) % m], [i \in 1..n |-> (2 * i + 1) % m]>>}

\* go func() { c1 = m.Mul(x1, y1) }(); go func() { c2 = m.Mul(x2, y2) }()
\* on one constructed Multiplier or CRTMultiplier, x1, y1, x2, y2 disjoint
Go ==
    /\ Ready("Multiplier") \/ Ready("CRTMultiplier")
    /\ LET n == recv.m.N
           m == IF recv.kind = "Multiplier" THEN heap[recv.m.Mod] ELSE heap[recv.m.PQ]
       IN \E p1 \in ConcOperands(n, m), p2 \in ConcOperands(n, m) :
            LET h1 == AllocAll(AllocAll(heap, p1[1]), p1[2])
                h2 == AllocAll(AllocAll(h1, p2[1]), p2[2])
                call == IF recv.kind = "Multiplier" THEN "Mul" ELSE "multiplierP.Mul"
            IN /\ heap' = h2
               /\ heap0' = h2
               /\ thr' = <<Frame(call, Fresh(heap, n), Fresh(AllocAll(heap, p1[1]), n)),
                           Frame(call, Fresh(h1, n), Fresh(AllocAll(h1, p2[1]), n))>>
    /\ op' = "go"
    /\ UNCHANGED <<recv, x, y, out, panic, scalars>>

\* goroutine i has returned or panicked
Done(i) == thr[i].pc = "return" \/ thr[i].panic # ""

\* the heap as goroutine i sees it: the shared objects, then its own
View(i) == heap \o thr[i].local

\* goroutine i has made the step r: what it wrote to the shared objects is
\* there for all, what it allocated is its own
StepTaken(i, r) ==
    /\ heap' = SubSeq(r.h, 1, Len(heap))
    /\ thr' = [thr EXCEPT ![i] = [r.t EXCEPT !.local = SubSeq(r.h, Len(heap) + 1, Len(r.h))]]

\* goroutine i makes its next step
Step(i) ==
    /\ op = "go"
    /\ ~Done(i)
    /\ StepTaken(i, IF recv.kind = "Multiplier" THEN MulStep(View(i), recv.m, thr[i])
                    ELSE CRTMulStep(View(i), recv.m, thr[i]))
    /\ UNCHANGED <<recv, x, y, out, op, panic, heap0, scalars>>

Next == NewMultiplierCall \/ MulCall \/ NTTCall \/ INTTCall

Spec == Init /\ [][Next]_vars

NextCRT == NewCRTMultiplierCall \/ CRTMulCall

\* the CRT multiplier alone
SpecCRT == Init /\ [][NextCRT]_vars

NextZ == NewZMultiplierCall \/ ZMulCall \/ KaratsubaCall

\* the integer multipliers alone
SpecZ == Init /\ [][NextZ]_vars

NextConc == NewMultiplierCall \/ NewCRTMultiplierCall \/ Go \/ \E i \in Threads : Step(i)

\* two goroutines sharing one Multiplier or one CRTMultiplier
SpecConc == Init /\ [][NextConc]_vars

\* the three multipliers together
SpecAll == Init /\ [][Next \/ NextCRT \/ NextZ]_vars

NextPoly == ScaleNearestCall \/ ModCall

\* the operations of Polynomial that need no multiplier
SpecPoly == Init /\ [][NextPoly]_vars

NextRLWE == RLWEPrimeCall \/ NewMultiplierOfRLWEPrime \/ MulCall

\* a Multiplier under a modulus sampled by RLWEPrime
SpecRLWE == Init /\ [][NextRLWE]_vars

----------------------------------------------------------------------------
(* What the claims speak of *)

\* the operands as they were on entry, and the result
XV == Values(heap0, x)
YV == Values(heap0, y)
OutV == Values(heap, out)

\* the modulus of the Multiplier
Q == heap[recv.m.Mod]

Weight(v) == Cardinality({i \in 1..Len(v) : v[i] # 0})

InRange(v, m) == \A i \in 1..Len(v) : 0 <= v[i] /\ v[i] < m

Congruent(u, v, m) == Len(u) = Len(v) /\ \A i \in 1..Len(u) : (u[i] - v[i]) % m = 0

\* C1: for operands of length N with coefficients in [0, q), Multiplier.Mul
\* returns normally a polynomial of length N that is congruent modulo q,
\* coefficient by coefficient, to the reference negacyclic convolution.
MulMatchesReference ==
    (op = "Mul" /\ Len(x) = recv.m.N /\ Len(y) = recv.m.N
        /\ InRange(XV, Q) /\ InRange(YV, Q))
    => /\ panic = ""
       /\ Congruent(OutV, cycMulNaive(XV, YV), Q)

\* a product in dimension 4 whose coefficients sum several terms x[i]*y[j]
MulMatchesReferenceWitness ==
    /\ op = "Mul" /\ panic = "" /\ recv.m.N = 4 /\ Len(x) = 4 /\ x # y
    /\ InRange(XV, Q) /\ InRange(YV, Q)
    /\ Weight(XV) = 2 /\ Weight(YV) = 2
    /\ \E i \in 1..4 : XV[i] = Q - 1
    /\ \E i \in 1..4 : cycMulNaive(XV, YV)[i] < 0
    /\ \E i \in 1..4 : Abs(cycMulNaive(XV, YV)[i]) > Q
    /\ Weight(OutV) >= 3

\* C4: NTT followed by INTT, both in place, leaves every coefficient equal to
\* its original value reduced mod q, hence equal to the original value when
\* that lies in [0, q).
NTTRoundTrip ==
    op = "INTT"
    => /\ panic = ""
       /\ \A i \in 1..Len(x) : heap[x[i]] = heap0[x[i]] % Q
       /\ InRange(XV, Q) => Values(heap, x) = XV

\* the round trip of a polynomial of dimension 4 that has coefficients
\* outside [0, q)
NTTRoundTripWitness ==
    /\ op = "INTT" /\ panic = "" /\ recv.m.N = 4
    /\ Weight(XV) = 4
    /\ \E i \in 1..4 : XV[i] < 0
    /\ \E i \in 1..4 : XV[i] > Q
    /\ Values(heap, x) # XV

\* the round trip of a polynomial of dimension 4 with coefficients in [0, q)
NTTRoundTripInRangeWitness ==
    /\ op = "INTT" /\ panic = "" /\ recv.m.N = 4
    /\ Weight(XV) = 4 /\ InRange(XV, Q)
    /\ Values(heap, x) = XV

MulRejectsBadLength ==
    (op = "Mul" /\ (Len(x) # recv.m.N \/ Len(y) # recv.m.N)) => panic # ""

\* C10 (observed): Multiplier.Mul panics on operands of different lengths and
\* on operands of one length below N (an index out of range inside NTT); on
\* operands of one length above N it returns a polynomial of that length.
MulChecksOnlyEqualLengths ==
    op = "Mul"
    => CASE Len(x) # Len(y)    -> panic = "asymmetric multiplication call"
         [] Len(x) < recv.m.N  -> panic = IndexPanic
         [] OTHER              -> panic = "" /\ Len(out) = Len(x)

\* Mul has returned a polynomial of length 8 from a Multiplier of dimension 4
MulChecksOnlyEqualLengthsWitness ==
    op = "Mul" /\ panic = "" /\ recv.m.N = 4 /\ Len(x) = 8 /\ Len(out) = 8

\* the moduli of a CRT multiplier and the residue products its Mul combines
P == heap[recv.m.multiplierP.Mod]

QQ == heap[recv.m.multiplierQ.Mod]

PQ == heap[recv.m.PQ]

PInvQ == heap[recv.m.pInvQ]

ResidueP == LET a == Mul(heap0, recv.m.multiplierP, x, y) IN Values(a.h, a.p)

ResidueQ == LET b == Mul(heap0, recv.m.multiplierQ, x, y) IN Values(b.h, b.p)

\* the representative of v modulo m in (-m/2, m/2]
Symmetric(v, m) == LET r == v % m IN IF 2 * r > m THEN r - m ELSE r

\* C2: for x, y of length N with coefficients in [0, pq), CRTMultiplier.Mul
\* returns without panic a polynomial congruent, coefficient by coefficient
\* modulo pq, to the schoolbook negacyclic product of x and y.
CRTMulMatchesReference ==
    (op = "CRTMul" /\ Len(x) = recv.m.N /\ Len(y) = recv.m.N
        /\ InRange(XV, PQ) /\ InRange(YV, PQ))
    => /\ panic = ""
       /\ Congruent(OutV, cycMulNaive(XV, YV), PQ)

\* a product in dimension 4 of two distinct polynomials of two terms, whose
\* schoolbook product has a negative coefficient
CRTMulMatchesReferenceWitness ==
    /\ op = "CRTMul" /\ panic = "" /\ recv.m.N = 4 /\ Len(x) = 4 /\ x # y
    /\ InRange(XV, PQ) /\ InRange(YV, PQ)
    /\ Weight(XV) = 2 /\ Weight(YV) = 2
    /\ \E i \in 1..4 : cycMulNaive(XV, YV)[i] < 0
    /\ \E i \in 1..4 : OutV[i] % PQ # 0

RECURSIVE SupNorm(_)
SupNorm(v) ==
    IF v = <<>> THEN 0
    ELSE LET r == SupNorm(Tail(v)) IN IF Abs(Head(v)) > r THEN Abs(Head(v)) ELSE r

\* the prime ZMultiplier.Mul derived during the call just made
ZPrime == heap[Len(heap0) + 1]

\* C3: for integer polynomials x, y of length N, ZMultiplier.Mul returns
\* without panic exactly the schoolbook negacyclic product over the integers;
\* the prime it derives is at least 2N*|x|*|y| + 1 and is 1 modulo 2N, so every
\* product coefficient lies in (-q/2, q/2].
ZMulExact ==
    (op = "ZMul" /\ Len(x) = recv.m.N /\ Len(y) = recv.m.N)
    => /\ panic = ""
       /\ OutV = cycMulNaive(XV, YV)
       /\ ZPrime >= 2 * recv.m.N * SupNorm(XV) * SupNorm(YV) + 1
       /\ ZPrime % (2 * recv.m.N) = 1
       /\ ProbablyPrime(ZPrime)
       /\ \A i \in 1..Len(out) : -ZPrime < 2 * OutV[i] /\ 2 * OutV[i] <= ZPrime

\* a product in dimension 4 of two distinct polynomials with negative
\* coefficients, whose product has coefficients of both signs and whose prime
\* was found only after stepping past the first candidate
ZMulExactWitness ==
    /\ op = "ZMul" /\ panic = "" /\ recv.m.N = 4 /\ Len(x) = 4 /\ x # y
    /\ \E i \in 1..4 : XV[i] < 0
    /\ \E i \in 1..4 : YV[i] < 0
    /\ \E i \in 1..4 : OutV[i] < 0
    /\ \E i \in 1..4 : OutV[i] > 3
    /\ ZPrime > 2 * recv.m.N * SupNorm(XV) * SupNorm(YV) + 1

\* C5 (as claimed): for every power-of-two length N >= 1 and integer
\* polynomials x, y of length N, Karatsuba(x, y) returns without error the
\* schoolbook negacyclic product of x and y.
KaratsubaMatchesReference ==
    (op = "Karatsuba" /\ Len(x) = Len(y) /\ isPowerOfTwo(Len(x)))
    => /\ panic = ""
       /\ OutV = cycMulNaive(XV, YV)

\* C5 (observed): Karatsuba panics with an index out of range at length 1 and
\* returns the schoolbook negacyclic product from length 2 on.
KaratsubaFromLengthTwo ==
    (op = "Karatsuba" /\ Len(x) = Len(y) /\ isPowerOfTwo(Len(x)))
    => IF Len(x) = 1 THEN panic = IndexPanic
       ELSE panic = "" /\ OutV = cycMulNaive(XV, YV)

\* a Karatsuba product of length 4 with coefficients of both signs
KaratsubaFromLengthTwoWitness ==
    /\ op = "Karatsuba" /\ panic = "" /\ Len(x) = 4 /\ Len(y) = 4
    /\ Weight(XV) = 2 /\ Weight(YV) = 2
    /\ \E i \in 1..4 : OutV[i] < 0
    /\ \E i \in 1..4 : OutV[i] > 0

\* the coefficient objects of the operands of the call just made
InputCells == {x[i] : i \in 1..Len(x)} \cup {y[i] : i \in 1..Len(y)}

\* C6: Multiplier.Mul, CRTMultiplier.Mul and ZMultiplier.Mul leave every
\* coefficient of x and y at the value it had before the call, the polynomial
\* they return shares no coefficient object with x or y, and with the same
\* polynomial as both operands they return its square.
MulKeepsInputs ==
    op \in {"Mul", "CRTMul", "ZMul"}
    => /\ \A c \in InputCells : heap[c] = heap0[c]
       /\ panic = "" =>
            /\ \A i \in 1..Len(out) : out[i] \notin InputCells /\ out[i] > Len(heap0)
            /\ \A i, j \in 1..Len(out) : i # j => out[i] # out[j]
       /\ (panic = "" /\ x = y /\ Len(x) = recv.m.N) =>
            CASE op = "Mul"    -> Congruent(OutV, cycMulNaive(XV, XV), Q)
              [] op = "CRTMul" -> Congruent(OutV, cycMulNaive(XV, XV), PQ)
              [] op = "ZMul"   -> OutV = cycMulNaive(XV, XV)

\* a CRT multiplier in dimension 4 squaring one polynomial of two terms
\* passed as both operands
MulKeepsInputsWitness ==
    /\ op = "CRTMul" /\ panic = "" /\ recv.m.N = 4 /\ x = y /\ Len(x) = 4
    /\ Weight(XV) = 2
    /\ Values(heap, x) = XV
    /\ \E i \in 1..4 : OutV[i] # 0 /\ OutV[i] # XV[i]

\* what goroutine i's call returns when it runs alone from the heap the
\* goroutines were started on
Alone(i) ==
    IF recv.kind = "Multiplier" THEN Mul(heap0, recv.m, thr[i].x, thr[i].y)
    ELSE CRTMul(heap0, recv.m, thr[i].x, thr[i].y)

\* the polynomial goroutine i's call has returned
Returned(i) ==
    IF thr[i].panic # "" THEN <<>>
    ELSE IF thr[i].call = "Mul" THEN thr[i].c ELSE thr[i].out

\* C7: no step of a Mul running on a shared Multiplier or CRTMultiplier writes
\* an object of the multiplier (or an operand), so at every point of every
\* interleaving of two Mul calls with disjoint operands the multiplier is as
\* constructed, and each call returns what it returns when it runs alone.
ConcurrentMulIsolated ==
    op = "go"
    => /\ heap = heap0
       /\ \A i \in Threads :
            Done(i) => LET r == Alone(i)
                       IN /\ thr[i].panic = r.panic
                          /\ Values(View(i), Returned(i)) = Values(r.h, r.p)

\* both goroutines have returned from Mul on a CRTMultiplier of dimension 4,
\* with different non-zero results
ConcurrentMulIsolatedWitness ==
    /\ op = "go" /\ recv.kind = "CRTMultiplier" /\ recv.m.N = 4
    /\ \A i \in Threads : thr[i].pc = "return" /\ thr[i].panic = ""
    /\ Values(View(1), Returned(1)) # Values(View(2), Returned(2))
    /\ \A i \in Threads : \E k \in 1..4 : View(i)[Returned(i)[k]] # 0

----------------------------------------------------------------------------
(* Scaling and symmetric reduction *)

\* c/d rounded to the nearest integer, ties away from zero, d # 0
RoundHalfAway(c, d) ==
    LET m == (2 * Abs(c) + Abs(d)) \div (2 * Abs(d))
    IN IF (c < 0) # (d < 0) THEN -m ELSE m

\* the scale ScaleNearest was called with
Scale == heap0[scalars.scale]

\* the result of the last call is made of objects allocated during the call
OutIsNew == \A i \in 1..Len(out) : out[i] > Len(heap0)

\* C11: for coefficients of either sign and every non-zero scale d of either
\* sign, p.ScaleNearest(d) returns a new polynomial whose i-th coefficient is
\* c_i/d rounded to the nearest integer, ties away from zero, and leaves p
\* unchanged; d = 0 panics.
ScaleNearestRoundsHalfAway ==
    op = "ScaleNearest"
    => IF Scale = 0 THEN panic = "division by zero"
       ELSE /\ panic = ""
            /\ Len(out) = Len(x)
            /\ OutIsNew
            /\ \A i \in 1..Len(x) : OutV[i] = RoundHalfAway(XV[i], Scale)
            /\ Values(heap, x) = XV

\* C11, for the scales and lengths the code handles: with d > 0 and p of a
\* power-of-two length the result is new, p is unchanged and every coefficient
\* is c_i/d rounded half away from zero; d = 0 panics.
ScaleNearestPositiveScale ==
    op = "ScaleNearest"
    => /\ Scale = 0 => panic = "division by zero"
       /\ (Scale > 0 /\ isPowerOfTwo(Len(x)))
            => /\ panic = ""
               /\ Len(out) = Len(x)
               /\ OutIsNew
               /\ \A i \in 1..Len(x) : OutV[i] = RoundHalfAway(XV[i], Scale)
               /\ Values(heap, x) = XV

\* two ties under a positive scale, one of each sign: 3/2 -> 2 and -5/2 -> -3
ScaleNearestPositiveScaleWitness ==
    /\ op = "ScaleNearest" /\ panic = "" /\ Scale = 2
    /\ XV = <<3, -5>> /\ OutV = <<2, -3>>

\* the modulus Mod was called with
Modulus == heap0[scalars.mod]

\* C12: after p.Mod(q), q >= 2 odd or even, every coefficient c satisfies
\* -q/2 < c <= q/2 and is congruent modulo q to the coefficient it replaced;
\* Mod works in place and returns p itself.
ModSymmetricInPlace ==
    op = "Mod"
    => /\ panic = ""
       /\ out = x
       /\ Len(heap) = Len(heap0)
       /\ heap[scalars.mod] = Modulus
       /\ \A i \in 1..Len(x) :
            /\ -Modulus < 2 * heap[x[i]] /\ 2 * heap[x[i]] <= Modulus
            /\ (heap[x[i]] - heap0[x[i]]) % Modulus = 0

\* an even modulus, one coefficient reduced to q/2 itself and one brought up
\* from below -q
ModSymmetricInPlaceWitness ==
    /\ op = "Mod" /\ Modulus = 6 /\ Len(x) = 2
    /\ XV = <<3, -7>> /\ OutV = <<3, -1>>

----------------------------------------------------------------------------
(* Residue classes *)

\* the non-negative residues modulo m of the values v
Residues(v, m) == [i \in 1..Len(v) |-> v[i] % m]

\* what the multiplier of the last call returns for the operands xv, yv, given
\* as two fresh polynomials
MulOf(xv, yv) ==
    Mul(AllocAll(AllocAll(heap0, xv), yv), recv.m,
        Fresh(heap0, Len(xv)), Fresh(AllocAll(heap0, xv), Len(yv)))

\* C13: Multiplier.Mul depends only on the residue classes of its operands:
\* Mul(x, y) ends as Mul(x mod q, y mod q) does and returns the same
\* coefficients, whatever the sign and the magnitude of the coefficients of x
\* and y; and when x or y is the zero polynomial the result is zero.
MulDependsOnResidues ==
    op = "Mul"
    => /\ LET r == MulOf(Residues(XV, Q), Residues(YV, Q))
          IN /\ panic = r.panic
             /\ OutV = Values(r.h, r.p)
       /\ (panic = "" /\ (Weight(XV) = 0 \/ Weight(YV) = 0)) => Weight(OutV) = 0

\* a non-zero product in dimension 4 of operands with a negative coefficient
\* below -q and a coefficient above q
MulDependsOnResiduesWitness ==
    /\ op = "Mul" /\ panic = "" /\ recv.m.N = 4 /\ Len(x) = 4 /\ Q > 2
    /\ Weight(XV) = 2 /\ Weight(YV) = 2
    /\ \E i \in 1..4 : XV[i] < -Q
    /\ \E i \in 1..4 : YV[i] > Q
    /\ Weight(OutV) >= 2

----------------------------------------------------------------------------
(* Sampled primes *)

\* the least k with 2^k >= n, n >= 1
CeilLog2(n) == CHOOSE k \in 0..n : 2^k >= n /\ (k = 0 \/ 2^(k - 1) < n)

\* the prime RLWEPrime has returned
RLWEQ == heap[scalars.prime]

\* q is the first prime of the progression start, start + n, start + 2n, ...
FirstPrimeFrom(q, start, n) ==
    /\ q >= start
    /\ (q - start) % n = 0
    /\ ProbablyPrime(q)
    /\ \A c \in start..(q - 1) : (c - start) % n = 0 => ~ProbablyPrime(c)

\* C14: RLWEPrime(bitLen, n) panics if and only if bitLen < ceil(log2 n);
\* otherwise it starts from n*2^(bitLen - ceil(log2 n)) + 1, adds n until the
\* candidate is prime, and returns a q = 1 (mod n) of bit length >= bitLen.
RLWEPrimeFromCeilLog2 ==
    op = "RLWEPrime"
    => LET n == scalars.n
           b == scalars.bitLen
       IN /\ (panic # "") <=> (b < CeilLog2(n))
          /\ panic = "" => /\ FirstPrimeFrom(RLWEQ, n * 2^(b - CeilLog2(n)) + 1, n)
                           /\ RLWEQ % n = 1 % n
                           /\ bitsLen(RLWEQ) >= b

\* C14 with the bit length of n, floor(log2 n) + 1, in the place of
\* ceil(log2 n): RLWEPrime(bitLen, n) panics if and only if bitLen is less than
\* the bit length of n; otherwise it starts from n*2^(bitLen - bits(n)) + 1,
\* adds n until the candidate is prime, and returns a q = 1 (mod n) of bit
\* length >= bitLen.
RLWEPrimeFromBitsLen ==
    op = "RLWEPrime"
    => LET n == scalars.n
           b == scalars.bitLen
       IN /\ (panic # "") <=> (b < bitsLen(n))
          /\ panic = "" => /\ FirstPrimeFrom(RLWEQ, n * 2^(b - bitsLen(n)) + 1, n)
                           /\ RLWEQ % n = 1 % n
                           /\ bitsLen(RLWEQ) >= b

\* RLWEPrime(4, 4): the first candidate 9 is not prime, 13 is returned
RLWEPrimeFromBitsLenWitness ==
    /\ op = "RLWEPrime" /\ panic = ""
    /\ scalars.n = 4 /\ scalars.bitLen = 4 /\ RLWEQ = 13

\* the last call was made with, or under, a modulus RLWEPrime(bitLen, N) has
\* returned for a power-of-two N
UnderRLWEPrime == scalars.call = "RLWEPrime" /\ isPowerOfTwo(scalars.n)

\* C15: for every power-of-two N and every bitLen RLWEPrime accepts, the prime
\* q = RLWEPrime(bitLen, N) is of the form k*2N + 1, NewMultiplier(N, q)
\* accepts it, and Mul under it matches the reference negacyclic convolution.
RLWEPrimeFitsMultiplier ==
    /\ (op = "NewMultiplier" /\ UnderRLWEPrime)
        => /\ RLWEQ % (2 * scalars.n) = 1
           /\ panic = ""
    /\ (op = "Mul" /\ UnderRLWEPrime /\ Len(x) = recv.m.N /\ Len(y) = recv.m.N
            /\ InRange(XV, Q) /\ InRange(YV, Q))
        => /\ panic = ""
           /\ Congruent(OutV, cycMulNaive(XV, YV), Q)

\* C15 as far as the code goes: the prime RLWEPrime(bitLen, N) returns is
\* 1 (mod N); NewMultiplier(N, q) accepts it exactly when it is also
\* 1 (mod 2N) and panics with "q != 1 mod 2n" otherwise; under an accepted
\* prime Mul matches the reference negacyclic convolution.
RLWEPrimeFitsMultiplierWhenOneMod2N ==
    /\ (op = "NewMultiplier" /\ UnderRLWEPrime)
        => /\ RLWEQ % scalars.n = 1 % scalars.n
           /\ panic = (IF RLWEQ % (2 * scalars.n) = 1 THEN "" ELSE "q != 1 mod 2n")
    /\ (op = "Mul" /\ UnderRLWEPrime /\ Len(x) = recv.m.N /\ Len(y) = recv.m.N
            /\ InRange(XV, Q) /\ InRange(YV, Q))
        => /\ panic = ""
           /\ Congruent(OutV, cycMulNaive(XV, YV), Q)

\* a product in dimension 4 under 17 = RLWEPrime(5, 4)
RLWEPrimeFitsMultiplierWhenOneMod2NWitness ==
    /\ op = "Mul" /\ UnderRLWEPrime /\ panic = ""
    /\ scalars.n = 4 /\ scalars.bitLen = 5 /\ Q = 17 /\ recv.m.Mod = scalars.prime
    /\ Len(x) = 4 /\ InRange(XV, Q) /\ InRange(YV, Q)
    /\ Weight(XV) = 2 /\ Weight(YV) = 2 /\ Weight(OutV) >= 2

====
